---- MODULE Spec2Model ----
(***************************************************************************)
(* BabbelSky: the background dispatcher (translatePost, the rate limiter,  *)
(* the message listener), the secret codec (getEncryptionKey, encryptData, *)
(* decryptData), the options page's saveOptions and the content script's   *)
(* click handling, as state machines over the two chrome.storage areas,    *)
(* the wall clock and the page DOM.                                        *)
(*                                                                         *)
(* One step of the model is one run-to-completion stretch of JavaScript:   *)
(* from the resumption after an await (or a callback entry) to the next    *)
(* await.  Awaits on pure crypto promises (importKey, exportKey, encrypt,  *)
(* decrypt) touch no shared state and are folded into the stretch that     *)
(* follows them.                                                           *)
(***************************************************************************)
EXTENDS Integers, Sequences, FiniteSets

\* ---------------------------------------------------------------- bounds
MaxCalls == 2        \* translatePost calls in flight at once
MaxSavers == 2       \* saveOptions invocations that may exist at once
MaxIV == 1           \* distinct values generateIV can return
MaxEnv == 1          \* changes made to the stored secrets from outside
Epoch == 5000        \* Date.now() when the background script starts
TickMs == 1000       \* granularity of the clock
Horizon == 2000      \* the clock runs from Epoch to Epoch + Horizon
MaxControls == 2     \* translate controls the host page shows
MaxBlocks == 3       \* inserted blocks after which a post is left alone
MaxInjections == 2   \* times contentScript.js is executed in the page
MaxTabs == 2         \* tabs showing the host page
MaxLoads == 2        \* loadOptions invocations that may exist at once
MaxLen == 2          \* UTF-16 code units in a string given to encryptData

\* ---------------------------------------------------- program constants
RateLimitMs == 2000

CallIds == 1..MaxCalls
SaveIds == 1..MaxSavers
IVs == 1..MaxIV
MaxKeys == MaxCalls + MaxSavers
MaxTime == Epoch + Horizon

Providers == {"Google", "OpenAI"}

\* An optional value is the empty set (undefined) or a singleton.
None == {}
Some(x) == {x}
The(s) == CHOOSE x \in s : TRUE

\* Error messages
ErrNoService == "No translation service selected."
ErrInvalid == "Invalid translation service or missing API key."
ErrDecrypt == "Failed to decrypt data. Possible data corruption."
ErrBase64 == "InvalidCharacterError"
ErrStorage == "chrome.runtime.lastError"
ErrApi == "API call failed"
ErrOpenAI == "OpenAI translation failed. Data returned:"
ErrGoogle == "Google Translate API translation failed."
ErrNetwork == "Failed to fetch"
ErrJson == "Unexpected token"
ErrType == "Cannot read properties of undefined"

\* Plaintext credentials typed into the options page, and what trim() makes
\* of them.
GoogleFieldValues == {" ", "gk"}
OpenaiFieldValues == {" ", "ok"}
Trim(s) == CASE s = " " -> ""
             [] s = " Hello " -> "Hello"
             [] OTHER -> s

\* ------------------------------------------------------------ the codec
\* A base64 string is modelled by the bytes it decodes to and by whether
\* window.atob accepts it at all.
ArrayBufferToBase64(bytes) == [valid |-> TRUE, bytes |-> bytes]
IsBase64(s) == s.valid
Base64ToArrayBuffer(s) == s.bytes

\* crypto.subtle.exportKey("raw") / importKey("raw"): the raw bytes of key
\* number k are k.
ExportKey(k) == k
ImportKey(raw) == raw

\* AES-GCM: the ciphertext authenticates the key, the IV and the plaintext.
AesGcmEncrypt(k, iv, pt) == [k |-> k, iv |-> iv, pt |-> pt, tag |-> TRUE]
AesGcmDecrypt(k, iv, ct) ==
  IF ct.k = k /\ ct.iv = iv /\ ct.tag
    THEN [ok |-> TRUE, pt |-> ct.pt]
    ELSE [ok |-> FALSE, pt |-> ""]

\* encryptData(key, data) with the IV that generateIV drew.
EncryptData(k, iv, data) ==
  [iv |-> ArrayBufferToBase64(iv),
   ciphertext |-> ArrayBufferToBase64(AesGcmEncrypt(k, iv, data))]

\* decryptData(key, ivBase64, ciphertextBase64): the two base64 decodings
\* run before the try block, the decryption inside it.
DecryptData(k, ivB64, ctB64) ==
  IF ~IsBase64(ivB64) \/ ~IsBase64(ctB64)
    THEN [ok |-> FALSE, pt |-> "", err |-> ErrBase64]
    ELSE LET r == AesGcmDecrypt(k, Base64ToArrayBuffer(ivB64),
                                Base64ToArrayBuffer(ctB64))
         IN IF r.ok THEN [ok |-> TRUE, pt |-> r.pt, err |-> ""]
                    ELSE [ok |-> FALSE, pt |-> "", err |-> ErrDecrypt]

\* ------------------------------------------------- the codec's strings
\* A JavaScript string is a sequence of UTF-16 code units.  The units
\* tried: "a", the byte order mark U+FEFF, and the two halves of the
\* surrogate pair of U+1F600.
CodeUnits == {97, 65279, 55357, 56832}
Strings == UNION {[1..n -> CodeUnits] : n \in 0..MaxLen}

IsHighSurrogate(u) == u >= 55296 /\ u <= 56319
IsLowSurrogate(u) == u >= 56320 /\ u <= 57343

\* The conversion of a string to scalar values that TextEncoder.encode
\* applies to its argument: a surrogate pair is one code point, a lone
\* surrogate becomes U+FFFD.
RECURSIVE ToScalarValues(_)
ToScalarValues(str) ==
  IF str = <<>> THEN <<>>
  ELSE IF IsHighSurrogate(str[1]) /\ Len(str) > 1 /\ IsLowSurrogate(str[2])
    THEN <<65536 + (str[1] - 55296) * 1024 + (str[2] - 56320)>>
           \o ToScalarValues(SubSeq(str, 3, Len(str)))
  ELSE IF IsHighSurrogate(str[1]) \/ IsLowSurrogate(str[1])
    THEN <<65533>> \o ToScalarValues(Tail(str))
  ELSE <<str[1]>> \o ToScalarValues(Tail(str))

\* UTF-8 of one scalar value.
Utf8Encode(cp) ==
  IF cp < 128 THEN <<cp>>
  ELSE IF cp < 2048 THEN <<192 + (cp \div 64), 128 + (cp % 64)>>
  ELSE IF cp < 65536
    THEN <<224 + (cp \div 4096), 128 + ((cp \div 64) % 64), 128 + (cp % 64)>>
  ELSE <<240 + (cp \div 262144), 128 + ((cp \div 4096) % 64),
         128 + ((cp \div 64) % 64), 128 + (cp % 64)>>

RECURSIVE Utf8EncodeAll(_)
Utf8EncodeAll(cps) ==
  IF cps = <<>> THEN <<>> ELSE Utf8Encode(cps[1]) \o Utf8EncodeAll(Tail(cps))

\* new TextEncoder().encode(data)
TextEncoderEncode(str) == Utf8EncodeAll(ToScalarValues(str))

\* UTF-8 decoding without the fatal flag: a byte that starts no complete
\* sequence decodes to U+FFFD.
RECURSIVE Utf8Decode(_)
Utf8Decode(bytes) ==
  IF bytes = <<>> THEN <<>>
  ELSE LET b == bytes[1]
           n == Len(bytes)
           c(i) == bytes[i] - 128
       IN IF b < 128 THEN <<b>> \o Utf8Decode(Tail(bytes))
          ELSE IF b >= 192 /\ b < 224 /\ n >= 2
            THEN <<(b - 192) * 64 + c(2)>> \o Utf8Decode(SubSeq(bytes, 3, n))
          ELSE IF b >= 224 /\ b < 240 /\ n >= 3
            THEN <<(b - 224) * 4096 + c(2) * 64 + c(3)>>
                   \o Utf8Decode(SubSeq(bytes, 4, n))
          ELSE IF b >= 240 /\ b < 248 /\ n >= 4
            THEN <<(b - 240) * 262144 + c(2) * 4096 + c(3) * 64 + c(4)>>
                   \o Utf8Decode(SubSeq(bytes, 5, n))
          ELSE <<65533>> \o Utf8Decode(Tail(bytes))

\* A TextDecoder made without {ignoreBOM: true} drops a leading byte
\* order mark.
StripBom(bytes) ==
  IF Len(bytes) >= 3 /\ SubSeq(bytes, 1, 3) = <<239, 187, 191>>
    THEN SubSeq(bytes, 4, Len(bytes))
    ELSE bytes

\* Scalar values back to UTF-16 code units.
RECURSIVE ToCodeUnits(_)
ToCodeUnits(cps) ==
  IF cps = <<>> THEN <<>>
  ELSE IF cps[1] >= 65536
    THEN <<55296 + ((cps[1] - 65536) \div 1024),
           56320 + ((cps[1] - 65536) % 1024)>> \o ToCodeUnits(Tail(cps))
  ELSE <<cps[1]>> \o ToCodeUnits(Tail(cps))

\* new TextDecoder().decode(decrypted)
TextDecoderDecode(bytes) == ToCodeUnits(Utf8Decode(StripBom(bytes)))

\* encryptData and decryptData on strings given by their code units.  The
\* credentials of the other sections ("gk", "ok") stand for their own
\* UTF-8 bytes.
EncryptText(k, iv, str) == EncryptData(k, iv, TextEncoderEncode(str))

DecryptText(k, ivB64, ctB64) ==
  LET r == DecryptData(k, ivB64, ctB64)
  IN IF r.ok THEN [r EXCEPT !.pt = TextDecoderDecode(@)] ELSE r

\* JSON.stringify / JSON.parse of the {iv, ciphertext} object.
JsonStringify(obj) == [json |-> obj]
JsonParse(str) == str.json

\* ---------------------------------------------------------------- state
VARIABLES
  now,              \* Date.now()
  lastApiCallTime,  \* background: the rate-limit timestamp
  sync,             \* chrome.storage.sync: translationService and secrets
  localKey,         \* chrome.storage.local.encryptionKey (optional base64)
  nextKey,          \* number of keys crypto.subtle.generateKey has made
  calls,            \* background: one record per translatePost message
  saves,            \* options page: one record per saveOptions invocation
  envLeft,          \* outside changes to the stored secrets still allowed
  page,             \* content script and the host page's DOM
  codec,            \* one string taken through encryptData and decryptData
  apiCallTracker,   \* background with a tracker: URL -> time of last request
  browser,          \* the tabs, their detectors and injection requests
  form              \* options page: credential fields and checkboxes

vars == <<now, lastApiCallTime, sync, localKey, nextKey, calls, saves,
          envLeft, page, codec, apiCallTracker, browser, form>>


\* translationService as chrome.storage.sync.get returns it
Undefined == "undefined"
Null == "null"
ServiceValues == {Undefined, Null, "Google", "OpenAI"}

\* The synced store under the keys that matter here; encryptionKey is the
\* name the key has in the local store.
EmptySettings ==
  [translationService |-> Undefined,
   encryptedGoogleApiKey |-> None,
   encryptedOpenaiApiKey |-> None,
   encryptionKey |-> None]

IdleCall ==
  [pc |-> "idle", post |-> "", st |-> EmptySettings, key |-> 0,
   provider |-> "none", wakeAt |-> 0, fetchAt |-> 0, path |-> {},
   fetches |-> 0, gotSettings |-> FALSE, keyAccess |-> FALSE,
   decrypts |-> 0, outcome |-> "none", url |-> <<>>, resp |-> <<>>, ctl |-> 0,
   handled |-> "",
   latest |-> FALSE, pred |-> 0]

IdleSave ==
  [pc |-> "idle", googleApiKey |-> "", openaiApiKey |-> "",
   translationService |-> Null, key |-> 0, items |-> EmptySettings,
   message |-> "", before |-> EmptySettings]

Controls == 1..MaxControls

\* A translate control of the host page (an a[aria-label] element), the
\* post container around it, and the blocks inserted after the post's text
\* element.  dataset.original is the control's data-original attribute;
\* listeners are the click handlers attached to the control, in the order
\* of their registration, each named by the content-script instance whose
\* handleTranslateButtonClick it is.
NoControl ==
  [present |-> FALSE, marker |-> FALSE, listeners |-> <<>>,
   original |-> None, hasPost |-> FALSE, hasText |-> FALSE, text |-> "",
   blocks |-> <<>>]

\* injected counts the content-script instances running in the page;
\* warned says whether the click handler has logged 'No post text found to
\* translate.'
InitPage ==
  [injected |-> 0, warned |-> FALSE, ctl |-> [k \in Controls |-> NoControl]]

\* No string has been encrypted yet.
IdleCodec ==
  [stage |-> "idle", str |-> <<>>, k |-> 0, enc |-> EncryptText(0, 0, <<>>),
   k2 |-> 0, out |-> [ok |-> FALSE, pt |-> "", err |-> ""]]

\* The URLs of provider requests.  translateWithOpenAI always posts to the
\* same URL; translateWithGoogle puts the key and the text into the query.
OpenAIUrl == <<"api.openai.com/v1/chat/completions", "", "">>
GoogleUrl(apiKey, text) ==
  <<"translation.googleapis.com/language/translate/v2", apiKey, text>>
Posts == {"Bonjour", "Hola"}
GoogleApiKeys == {"gk", "gk2"}
Urls == {OpenAIUrl} \cup {GoogleUrl(k, t) : k \in GoogleApiKeys, t \in Posts}

\* The browser window: which tab is active (0: none, the window shows no
\* tab the query matches), and per tab whether its page shows a translate
\* control, whether its detector is still observing, how many copies of
\* contentScript.js were executed in it, and the injectContentScript
\* request of its detector.
Tabs == 1..MaxTabs

NoRequest == [pc |-> "none", target |-> 0, resp |-> <<>>]

InitBrowser ==
  [active |-> 1,
   tab |-> [t \in Tabs |->
             [hasControl |-> FALSE, observing |-> TRUE, scripts |-> 0]],
   req |-> [t \in Tabs |-> NoRequest]]

\* The options page's form.  loaded is false until loadOptions has filled
\* the form: the block that does so assigns both credential fields, both
\* checkboxes' disabled and checked properties and the change listeners,
\* so what the document held before it does not reach any later state.
\* listeners counts the change listeners on each checkbox; cleared tells
\* whether the last change event made the handler uncheck the other box.
LoadIds == 1..MaxLoads

Unchecked == [checked |-> FALSE, disabled |-> TRUE]

IdleLoad == [pc |-> "idle", items |-> EmptySettings]

InitForm ==
  [loaded |-> FALSE, googleApiKey |-> "", openaiApiKey |-> "",
   serviceOpenAI |-> Unchecked, serviceGoogle |-> Unchecked,
   listeners |-> 0, last |-> "none", cleared |-> FALSE,
   loads |-> [l \in LoadIds |-> IdleLoad]]

Init ==
  /\ form = InitForm
  /\ browser = InitBrowser
  /\ codec = IdleCodec
  /\ apiCallTracker = [u \in Urls |-> 0]
  /\ now = Epoch
  /\ lastApiCallTime = 0
  /\ sync = EmptySettings
  /\ localKey = None
  /\ nextKey = 0
  /\ calls = [c \in CallIds |-> IdleCall]
  /\ saves = [s \in SaveIds |-> IdleSave]
  /\ envLeft = MaxEnv
  /\ page = InitPage

\* ------------------------------------------- background: the dispatcher
\* The message listener's two continuations: .then sends {translatedPost},
\* .catch sends {error: error.message}.
\* translatePost has settled and its locals are gone; the record keeps
\* which service was selected and which secrets were stored when it read
\* the settings.
Seen(secret) == IF secret = None THEN None ELSE Some(JsonStringify(
                  EncryptData(0, 0, "")))

Settled(rec) ==
  [rec EXCEPT !.pc = "done", !.key = 0, !.wakeAt = 0,
              !.st.encryptedGoogleApiKey = Seen(@),
              !.st.encryptedOpenaiApiKey = Seen(@)]

\* Faulty variant: the promise resolves but nothing is sent back.
SendTranslatedDropped(rec, text) == Settled(rec)

SendTranslated(rec, text) ==
  [Settled(rec) EXCEPT
     !.resp = Append(@, [kind |-> "translatedPost", val |-> text])]

\* Faulty variant: the rejection is logged but not answered.
SendErrorDropped(rec, msg) == Settled(rec)

SendError(rec, msg) ==
  [Settled(rec) EXCEPT !.resp = Append(@, [kind |-> "error", val |-> msg])]

\* Faulty variant: only an explicit null counts as "no service".
NoServiceSelectedNullOnly(svc) == svc = Null

\* if (!translationService)
NoServiceSelected(svc) == svc \in {Undefined, Null, ""}

\* Faulty variant: with the selected provider's secret missing, the other
\* provider is used if its secret is stored.
RouteFallback(st) ==
  IF st.translationService = "Google"
    THEN IF st.encryptedGoogleApiKey # None THEN "Google"
         ELSE IF st.encryptedOpenaiApiKey # None THEN "OpenAI" ELSE "none"
  ELSE IF st.translationService = "OpenAI"
    THEN IF st.encryptedOpenaiApiKey # None THEN "OpenAI"
         ELSE IF st.encryptedGoogleApiKey # None THEN "Google" ELSE "none"
  ELSE "none"

\* Faulty variant: the Google branch tests the secret only, not the selection.
RouteGoogleFirst(st) ==
  IF st.encryptedGoogleApiKey # None THEN "Google"
  ELSE IF st.translationService = "OpenAI" /\ st.encryptedOpenaiApiKey # None
    THEN "OpenAI"
  ELSE "none"

\* The if / else-if / else chain of translatePost: the provider whose
\* request function is called, or "none" for the throwing else branch.
Route(st) ==
  IF st.translationService = "Google" /\ st.encryptedGoogleApiKey # None
    THEN "Google"
  ELSE IF st.translationService = "OpenAI" /\ st.encryptedOpenaiApiKey # None
    THEN "OpenAI"
  ELSE "none"

StoredSecret(st, provider) ==
  IF provider = "Google" THEN The(st.encryptedGoogleApiKey)
                         ELSE The(st.encryptedOpenaiApiKey)

\* A call record is free before its first message, and again once the
\* message has been answered and the sender's callback has run.
FreeCall(c) ==
  \/ calls[c].pc = "idle"
  \/ calls[c].pc = "done" /\ (calls[c].ctl = 0 \/ calls[c].handled # "")

\* A new message takes the first free record.
NextCall(c) ==
  /\ FreeCall(c)
  /\ \A d \in CallIds : d < c => ~FreeCall(d)

\* onMessage listener, action "translatePost": translatePost(post) runs up
\* to its first await (getStorage) and the listener returns true.
\* The record remembers which message arrived immediately before it
\* (pred), for as long as that message's record exists.
ReceiveTranslatePost(c, post, ctl) ==
  /\ NextCall(c)
  /\ LET before == {d \in CallIds \ {c} : calls[d].latest}
     IN calls' = [d \in CallIds |->
          IF d = c
            THEN [IdleCall EXCEPT
                    !.pc = "getStorage", !.post = post, !.ctl = ctl,
                    !.latest = TRUE,
                    !.pred = IF before = {} THEN 0 ELSE The(before)]
            ELSE [calls[d] EXCEPT !.latest = FALSE,
                                  !.pred = IF @ = c THEN 0 ELSE @]]

MessageArrives(c) ==
  /\ ReceiveTranslatePost(c, "Bonjour", 0)
  /\ UNCHANGED <<apiCallTracker, codec, now, lastApiCallTime, sync, localKey,
                 nextKey, saves, envLeft, page, browser, form>>

\* chrome.storage.sync.get calls back.  With lastError the promise rejects;
\* otherwise translatePost checks translationService and, if one is
\* selected, enters getEncryptionKey up to its getLocalStorage await.
TP_GetStorage(c, failed) ==
  /\ calls[c].pc = "getStorage"
  /\ calls' = [calls EXCEPT ![c] =
       IF failed THEN SendError(@, ErrStorage)
       ELSE IF NoServiceSelected(sync.translationService)
         THEN SendError([@ EXCEPT !.st = sync, !.gotSettings = TRUE],
                        ErrNoService)
       ELSE [@ EXCEPT !.st = sync, !.gotSettings = TRUE, !.pc = "getLocal"]]
  /\ UNCHANGED <<apiCallTracker, codec, now, lastApiCallTime, sync, localKey,
                 nextKey, saves, envLeft, page, browser, form>>

\* After getEncryptionKey returned: the routing chain of translatePost.
\* The else branch throws; the two provider branches parse the stored
\* secret and await decryptData.
AfterKey(rec) ==
  LET r == Route(rec.st)
  IN IF r = "none" THEN SendError(rec, ErrInvalid)
     ELSE [rec EXCEPT !.provider = r, !.pc = "decrypt"]

\* getEncryptionKey: chrome.storage.local.get calls back.  A stored key is
\* imported and returned; otherwise a new key is generated, exported, and
\* the function awaits setLocalStorage.
TP_GetLocal(c, failed) ==
  /\ calls[c].pc = "getLocal"
  /\ IF failed
       THEN /\ calls' = [calls EXCEPT ![c] =
                 SendError([@ EXCEPT !.keyAccess = TRUE], ErrStorage)]
            /\ UNCHANGED nextKey
     ELSE IF localKey # None
       THEN /\ calls' = [calls EXCEPT ![c] =
                 AfterKey([@ EXCEPT
                   !.keyAccess = TRUE,
                   !.key = ImportKey(Base64ToArrayBuffer(The(localKey)))])]
            /\ UNCHANGED nextKey
     ELSE /\ nextKey < MaxKeys
          /\ nextKey' = nextKey + 1
          /\ calls' = [calls EXCEPT ![c] =
               [@ EXCEPT !.keyAccess = TRUE, !.key = nextKey + 1,
                         !.pc = "setLocal"]]
  /\ UNCHANGED <<apiCallTracker, codec, now, lastApiCallTime, sync, localKey,
                 saves, envLeft, page, browser, form>>

\* getEncryptionKey: chrome.storage.local.set calls back; the key is
\* returned to translatePost.
TP_SetLocal(c, failed) ==
  /\ calls[c].pc = "setLocal"
  /\ IF failed
       THEN /\ calls' = [calls EXCEPT ![c] = SendError(@, ErrStorage)]
            /\ UNCHANGED localKey
       ELSE /\ localKey' = Some(ArrayBufferToBase64(ExportKey(calls[c].key)))
            /\ calls' = [calls EXCEPT ![c] = AfterKey(@)]
  /\ UNCHANGED <<apiCallTracker, codec, now, lastApiCallTime, sync, nextKey,
                 saves, envLeft, page, browser, form>>

\* rateLimitedApiCall up to its first suspension: either the setTimeout
\* wait, or (timestamp written) the fetch.
IssueFetch(rec, t) ==
  [rec EXCEPT !.pc = "fetch", !.fetchAt = t, !.fetches = @ + 1]

RateLimitEnter(rec, t, last) ==
  LET timeSinceLastCall == t - last
  IN IF timeSinceLastCall < RateLimitMs
       THEN [rec EXCEPT !.pc = "rlWait",
                        !.wakeAt = t + (RateLimitMs - timeSinceLastCall)]
       ELSE IssueFetch(rec, t)

\* Faulty variant: the timestamp is written on entry, before the wait.
LastApiCallTimeOnEntry(rec, t, last) == IF rec.pc = "rlWait" THEN t ELSE last

\* lastApiCallTime after a stretch of rateLimitedApiCall that left the call
\* as rec: line 149 runs in the stretch that reaches the fetch, and in no
\* other.
LastApiCallTimeAfter(rec, t, last) == IF rec.pc = "fetch" THEN t ELSE last

\* decryptData settles.  On success translateWithGoogle / translateWithOpenAI
\* is called and runs into rateLimitedApiCall.
TP_Decrypt(c) ==
  /\ calls[c].pc = "decrypt"
  /\ LET rec == calls[c]
         enc == JsonParse(StoredSecret(rec.st, rec.provider))
         d == DecryptData(rec.key, enc.iv, enc.ciphertext)
         entered == RateLimitEnter(
                      [rec EXCEPT !.decrypts = @ + 1,
                                  !.path = @ \cup {rec.provider}],
                      now, lastApiCallTime)
     IN IF ~d.ok
          THEN /\ calls' = [calls EXCEPT ![c] = SendError(rec, d.err)]
               /\ UNCHANGED lastApiCallTime
          ELSE /\ calls' = [calls EXCEPT ![c] = entered]
               /\ lastApiCallTime' =
                    LastApiCallTimeAfter(entered, now, lastApiCallTime)
  /\ UNCHANGED <<apiCallTracker, codec, now, sync, localKey, nextKey, saves,
                 envLeft, page, browser, form>>

\* The setTimeout of rateLimitedApiCall fires (no earlier than its delay):
\* the timestamp is written and the fetch issued.
RL_Wake(c) ==
  /\ calls[c].pc = "rlWait"
  /\ now >= calls[c].wakeAt
  /\ LET issued == IssueFetch(calls[c], now)
     IN /\ calls' = [calls EXCEPT ![c] = issued]
        /\ lastApiCallTime' =
             LastApiCallTimeAfter(issued, now, lastApiCallTime)
  /\ UNCHANGED <<apiCallTracker, codec, now, sync, localKey, nextKey, saves,
                 envLeft, page, browser, form>>

\* What the provider answered, and what rateLimitedApiCall and the
\* translateWith... function make of it:
\*   reject   fetch rejects (no HTTP response);
\*   notOk    a response whose status is not a success status;
\*   badJson  success status, body that response.json() cannot parse;
\*   noField  success status, JSON body with no or an empty choices /
\*            data.translations list;
\*   noText   success status, a non-empty list whose first element lacks
\*            message.content / translatedText;
\*   blank    the expected field holds " ";
\*   ok       the expected field holds " Hello ".
FetchOutcomes ==
  {"ok", "blank", "notOk", "badJson", "noField", "noText", "reject"}

ProviderResult(provider, outcome) ==
  CASE outcome = "reject" -> [ok |-> FALSE, val |-> ErrNetwork]
    [] outcome = "notOk" -> [ok |-> FALSE, val |-> ErrApi]
    [] outcome = "badJson" -> [ok |-> FALSE, val |-> ErrJson]
    [] outcome = "noText" ->
         IF provider = "OpenAI"
           THEN [ok |-> FALSE, val |-> ErrType]
           ELSE [ok |-> TRUE, val |-> Undefined]
    [] outcome = "noField" ->
         [ok |-> FALSE,
          val |-> IF provider = "OpenAI" THEN ErrOpenAI ELSE ErrGoogle]
    [] outcome = "blank" ->
         [ok |-> TRUE, val |-> IF provider = "OpenAI" THEN Trim(" ") ELSE " "]
    [] OTHER ->
         [ok |-> TRUE,
          val |-> IF provider = "OpenAI" THEN Trim(" Hello ") ELSE " Hello "]

\* The fetch settles; translatePost resolves or rejects and the listener
\* answers the message.
FetchReturn(c, outcome) ==
  /\ calls[c].pc = "fetch"
  /\ LET r == ProviderResult(calls[c].provider, outcome)
         rec == [calls[c] EXCEPT !.outcome = outcome]
     IN calls' = [calls EXCEPT ![c] =
          IF r.ok THEN SendTranslated(rec, r.val) ELSE SendError(rec, r.val)]
  /\ UNCHANGED <<apiCallTracker, codec, now, lastApiCallTime, sync, localKey,
                 nextKey, saves, envLeft, page, browser, form>>

\* ------------------- background, the variant without a rate limiter
\* src/background.js.  Its listener, getStorage and getEncryptionKey are
\* those of the other variants; the routing chain and the provider
\* functions differ.
\* The if / else-if / else chain of its translatePost.  The Google branch
\* tests the local googleApiKey, which was set to '' three lines above.
RouteNoLimiter(st, googleApiKey) ==
  IF st.translationService = "Google" /\ googleApiKey # ""
    THEN "Google"
  ELSE IF st.translationService = "OpenAI" /\ st.encryptedOpenaiApiKey # None
    THEN "OpenAI"
  ELSE "none"

\* After getEncryptionKey returned: let googleApiKey = '' and the chain.
AfterKeyNoLimiter(rec) ==
  LET r == RouteNoLimiter(rec.st, "")
  IN IF r = "none" THEN SendError(rec, ErrInvalid)
     ELSE [rec EXCEPT !.provider = r, !.pc = "decrypt"]

\* getEncryptionKey: chrome.storage.local.get calls back.
BG_GetLocal(c, failed) ==
  /\ calls[c].pc = "getLocal"
  /\ IF failed
       THEN /\ calls' = [calls EXCEPT ![c] =
                 SendError([@ EXCEPT !.keyAccess = TRUE], ErrStorage)]
            /\ UNCHANGED nextKey
     ELSE IF localKey # None
       THEN /\ calls' = [calls EXCEPT ![c] =
                 AfterKeyNoLimiter([@ EXCEPT
                   !.keyAccess = TRUE,
                   !.key = ImportKey(Base64ToArrayBuffer(The(localKey)))])]
            /\ UNCHANGED nextKey
     ELSE /\ nextKey < MaxKeys
          /\ nextKey' = nextKey + 1
          /\ calls' = [calls EXCEPT ![c] =
               [@ EXCEPT !.keyAccess = TRUE, !.key = nextKey + 1,
                         !.pc = "setLocal"]]
  /\ UNCHANGED <<apiCallTracker, codec, now, lastApiCallTime, sync, localKey,
                 saves, envLeft, page, browser, form>>

\* getEncryptionKey: chrome.storage.local.set calls back.
BG_SetLocal(c, failed) ==
  /\ calls[c].pc = "setLocal"
  /\ IF failed
       THEN /\ calls' = [calls EXCEPT ![c] = SendError(@, ErrStorage)]
            /\ UNCHANGED localKey
       ELSE /\ localKey' = Some(ArrayBufferToBase64(ExportKey(calls[c].key)))
            /\ calls' = [calls EXCEPT ![c] = AfterKeyNoLimiter(@)]
  /\ UNCHANGED <<apiCallTracker, codec, now, lastApiCallTime, sync, nextKey,
                 saves, envLeft, page, browser, form>>

\* decryptData settles; on success the provider function issues its fetch
\* at once.
BG_Decrypt(c) ==
  /\ calls[c].pc = "decrypt"
  /\ LET rec == calls[c]
         enc == JsonParse(StoredSecret(rec.st, rec.provider))
         d == DecryptData(rec.key, enc.iv, enc.ciphertext)
     IN calls' = [calls EXCEPT ![c] =
          IF ~d.ok THEN SendError(rec, d.err)
          ELSE IssueFetch([rec EXCEPT !.decrypts = @ + 1,
                                      !.path = @ \cup {rec.provider}], now)]
  /\ UNCHANGED <<apiCallTracker, codec, now, lastApiCallTime, sync, localKey,
                 nextKey, saves, envLeft, page, browser, form>>

\* What translateWithOpenAI / translateWithGoogle of this variant make
\* of the provider's answer: a non-success status is reported with the
\* body text, the rest as in the other variants.
ProviderResultNoLimiter(provider, outcome) ==
  IF outcome = "notOk"
    THEN [ok |-> FALSE,
          val |-> IF provider = "OpenAI" THEN "OpenAI API Error: "
                  ELSE "Google Translate API Error: "]
    ELSE ProviderResult(provider, outcome)

\* The fetch settles and the listener answers the message.
BG_FetchReturn(c, outcome) ==
  /\ calls[c].pc = "fetch"
  /\ LET r == ProviderResultNoLimiter(calls[c].provider, outcome)
         rec == [calls[c] EXCEPT !.outcome = outcome]
     IN calls' = [calls EXCEPT ![c] =
          IF r.ok THEN SendTranslated(rec, r.val) ELSE SendError(rec, r.val)]
  /\ UNCHANGED <<apiCallTracker, codec, now, lastApiCallTime, sync, localKey,
                 nextKey, saves, envLeft, page, browser, form>>

\* ------------------------------------------ options page: the form
\* What the user can have in a credential field.
GoogleFieldTexts == {"", " ", "gk"}
OpenaiFieldTexts == {"", " ", "ok"}

\* removeEventListener followed by addEventListener of the same function:
\* one registration is removed if there is one, and the function is
\* registered unless it already is.
ChangeListenersAfter(n) ==
  LET removed == IF n > 0 THEN n - 1 ELSE 0
  IN IF removed = 0 THEN 1 ELSE removed

\* One checkbox in updateTranslationServiceOptions, given its field.
ServiceOptionKeepsChecked(box, field) ==
  IF Trim(field) = ""
    THEN [box EXCEPT !.disabled = TRUE]
    ELSE [box EXCEPT !.disabled = FALSE]

ServiceOption(box, field) ==
  IF Trim(field) = ""
    THEN [checked |-> FALSE, disabled |-> TRUE]
    ELSE [box EXCEPT !.disabled = FALSE]

UpdateTranslationServiceOptions(f) ==
  [f EXCEPT !.serviceOpenAI = ServiceOption(@, f.openaiApiKey),
            !.serviceGoogle = ServiceOption(@, f.googleApiKey),
            !.listeners = ChangeListenersAfter(@)]

\* handleCheckboxChange for a change event whose target is the checkbox
\* of provider p.
HandleCheckboxChange(f, p) ==
  IF p = "OpenAI"
    THEN IF f.serviceOpenAI.checked
           THEN [f EXCEPT !.serviceGoogle.checked = FALSE] ELSE f
    ELSE IF f.serviceGoogle.checked
           THEN [f EXCEPT !.serviceOpenAI.checked = FALSE] ELSE f

\* loadOptions is called and waits for getStorage.
LO_Start(l) ==
  /\ form.loads[l].pc = "idle"
  /\ form' = [form EXCEPT !.loads[l].pc = "getStorage"]
  /\ UNCHANGED <<apiCallTracker, codec, now, lastApiCallTime, sync, localKey,
                 nextKey, calls, saves, envLeft, page, browser>>

\* getStorage returns the synced items, or rejects and loadOptions ends
\* in its catch block.
LO_GetStorage(l, failed) ==
  /\ form.loads[l].pc = "getStorage"
  /\ form' = IF failed
               THEN [form EXCEPT !.loads[l] = IdleLoad]
               ELSE [form EXCEPT !.loads[l].pc = "getEncryptionKey",
                                 !.loads[l].items = sync]
  /\ UNCHANGED <<apiCallTracker, codec, now, lastApiCallTime, sync, localKey,
                 nextKey, calls, saves, envLeft, page, browser>>

\* A stored secret as loadOptions puts it into its field: the plaintext,
\* or the empty string when there is none or it does not decrypt.
LoadedCredential(key, secret) ==
  IF secret = None THEN ""
  ELSE LET enc == JsonParse(The(secret))
           r == DecryptData(key, enc.iv, enc.ciphertext)
       IN IF r.ok THEN r.pt ELSE ""

\* The rest of loadOptions: getEncryptionKey (which makes and stores a
\* key when the local store has none), the two decryptions, and the
\* block that fills the form.  When getEncryptionKey rejects, loadOptions
\* ends in its catch block.
LO_Finish(l, failed) ==
  /\ form.loads[l].pc = "getEncryptionKey"
  /\ IF failed
       THEN /\ form' = [form EXCEPT !.loads[l] = IdleLoad]
            /\ UNCHANGED <<localKey, nextKey>>
       ELSE LET items == form.loads[l].items
                key == IF localKey # None
                         THEN ImportKey(Base64ToArrayBuffer(The(localKey)))
                         ELSE nextKey + 1
                filled ==
                  UpdateTranslationServiceOptions(
                    [form EXCEPT
                       !.googleApiKey =
                          LoadedCredential(key, items.encryptedGoogleApiKey),
                       !.openaiApiKey =
                          LoadedCredential(key, items.encryptedOpenaiApiKey)])
            IN /\ localKey = None => nextKey < MaxKeys
               /\ nextKey' = IF localKey # None THEN nextKey
                              ELSE nextKey + 1
               /\ localKey' = IF localKey # None THEN localKey
                               ELSE Some(ArrayBufferToBase64(ExportKey(key)))
               /\ form' =
                    [filled EXCEPT
                       !.serviceOpenAI.checked =
                          items.translationService = "OpenAI"
                            /\ ~filled.serviceOpenAI.disabled,
                       !.serviceGoogle.checked =
                          items.translationService = "Google"
                            /\ ~filled.serviceGoogle.disabled,
                       !.loaded = TRUE, !.last = "load", !.cleared = FALSE,
                       !.loads[l] = IdleLoad]
  /\ UNCHANGED <<apiCallTracker, codec, now, lastApiCallTime, sync, calls,
                 saves, envLeft, page, browser>>

\* The user edits a credential field; its input listener is
\* updateTranslationServiceOptions.
FieldInput(p, text) ==
  /\ form.loaded
  /\ text # (IF p = "Google" THEN form.googleApiKey ELSE form.openaiApiKey)
  /\ form' =
       [UpdateTranslationServiceOptions(
          IF p = "Google" THEN [form EXCEPT !.googleApiKey = text]
                          ELSE [form EXCEPT !.openaiApiKey = text])
        EXCEPT !.last = "input", !.cleared = FALSE]
  /\ UNCHANGED <<apiCallTracker, codec, now, lastApiCallTime, sync, localKey,
                 nextKey, calls, saves, envLeft, page, browser>>

\* The user clicks the checkbox of provider p, which is not disabled: the
\* browser toggles it and dispatches change to the registered listeners.
CheckboxChange(p) ==
  /\ form.loaded
  /\ ~(IF p = "Google" THEN form.serviceGoogle.disabled
                       ELSE form.serviceOpenAI.disabled)
  /\ LET toggled == IF p = "Google"
                      THEN [form EXCEPT !.serviceGoogle.checked = ~@]
                      ELSE [form EXCEPT !.serviceOpenAI.checked = ~@]
         handled == IF form.listeners > 0
                      THEN HandleCheckboxChange(toggled, p) ELSE toggled
     IN form' = [handled EXCEPT !.last = "change",
                                !.cleared = (handled # toggled)]
  /\ UNCHANGED <<apiCallTracker, codec, now, lastApiCallTime, sync, localKey,
                 nextKey, calls, saves, envLeft, page, browser>>

\* ------------------------------- detector and injectContentScript
\* The host page in tab t shows a translate control.  The detector of the
\* tab, if it still observes, finds it, disconnects its observer and sends
\* injectContentScript; the background listener calls chrome.tabs.query
\* and returns true.
HostShowsControl(t) ==
  /\ ~browser.tab[t].hasControl
  /\ browser.tab[t].observing
  /\ browser' = [browser EXCEPT !.tab[t].hasControl = TRUE,
                                !.tab[t].observing = FALSE,
                                !.req[t].pc = "query"]
  /\ UNCHANGED <<apiCallTracker, codec, now, lastApiCallTime, sync, localKey,
                 nextKey, calls, saves, envLeft, page, form>>

\* The user activates another tab, or leaves the window without an active
\* tab for the query to return.
ActivateTab(a) ==
  /\ a # browser.active
  /\ browser' = [browser EXCEPT !.active = a]
  /\ UNCHANGED <<apiCallTracker, codec, now, lastApiCallTime, sync, localKey,
                 nextKey, calls, saves, envLeft, page, form>>

\* The callback of chrome.tabs.query({active: true, currentWindow: true})
\* for the request of tab t's detector: with a tab in the result,
\* executeScript is called for tabs[0]; with none, the callback returns.
IJ_TabsQuery(t) ==
  /\ browser.req[t].pc = "query"
  /\ browser' =
       IF browser.active # 0
         THEN [browser EXCEPT !.req[t].pc = "executeScript",
                              !.req[t].target = browser.active]
         ELSE [browser EXCEPT !.req[t].pc = "settled"]
  /\ UNCHANGED <<apiCallTracker, codec, now, lastApiCallTime, sync, localKey,
                 nextKey, calls, saves, envLeft, page, form>>

\* The callback of executeScript: with lastError the listener answers
\* {success: false, error}; otherwise the script has been executed in the
\* target tab and the listener answers {success: true}.
IJ_Executed(t, failed) ==
  /\ browser.req[t].pc = "executeScript"
  /\ LET target == browser.req[t].target
     IN browser' =
          IF failed
            THEN [browser EXCEPT
                    !.req[t].pc = "settled",
                    !.req[t].resp = Append(@, [success |-> FALSE])]
            ELSE [browser EXCEPT
                    !.req[t].pc = "settled",
                    !.req[t].resp = Append(@, [success |-> TRUE]),
                    !.tab[target].scripts = @ + 1]
  /\ UNCHANGED <<apiCallTracker, codec, now, lastApiCallTime, sync, localKey,
                 nextKey, calls, saves, envLeft, page, form>>

\* ------------------------ background, the variant with apiCallTracker
\* translateWithGoogle / translateWithOpenAI build the URL and call
\* rateLimitedApiCall(url, options), which reads apiCallTracker[url] || 0
\* (an absent entry is kept as 0) and runs up to its first suspension.
TrackerEnter(c, provider, apiKey, text) ==
  /\ NextCall(c)
  /\ LET url == IF provider = "OpenAI" THEN OpenAIUrl
                ELSE GoogleUrl(apiKey, text)
         rec == [IdleCall EXCEPT !.provider = provider, !.post = text,
                                 !.url = url, !.path = {provider}]
         entered == RateLimitEnter(rec, now, apiCallTracker[url])
     IN /\ calls' = [calls EXCEPT ![c] = entered]
        /\ apiCallTracker' =
             [apiCallTracker EXCEPT
                ![url] = LastApiCallTimeAfter(entered, now, @)]
  /\ UNCHANGED <<codec, now, lastApiCallTime, sync, localKey, nextKey, saves,
                 envLeft, page, browser, form>>

\* The setTimeout fires: apiCallTracker[url] is written and the fetch
\* issued.
TrackerWake(c) ==
  /\ calls[c].pc = "rlWait"
  /\ now >= calls[c].wakeAt
  /\ LET issued == IssueFetch(calls[c], now)
     IN /\ calls' = [calls EXCEPT ![c] = issued]
        /\ apiCallTracker' =
             [apiCallTracker EXCEPT
                ![calls[c].url] = LastApiCallTimeAfter(issued, now, @)]
  /\ UNCHANGED <<codec, now, lastApiCallTime, sync, localKey, nextKey, saves,
                 envLeft, page, browser, form>>

\* The wall clock advances.
Tick ==
  /\ now + TickMs <= MaxTime
  /\ now' = now + TickMs
  /\ UNCHANGED <<apiCallTracker, codec, lastApiCallTime, sync, localKey,
                 nextKey, calls, saves, envLeft, page, browser, form>>


\* ------------------------------------------ options page: saveOptions
\* Faulty variant: the checkbox alone selects the service.
SelectedServiceUnchecked(openaiChecked, googleChecked, googleApiKey, openaiApiKey) ==
  IF openaiChecked THEN "OpenAI"
  ELSE IF googleChecked THEN "Google"
  ELSE Null

\* translationService as saveOptions derives it from the two checkboxes
\* and the trimmed credential fields.
SelectedService(openaiChecked, googleChecked, googleApiKey, openaiApiKey) ==
  IF openaiChecked /\ openaiApiKey # "" THEN "OpenAI"
  ELSE IF googleChecked /\ googleApiKey # "" THEN "Google"
  ELSE Null

\* if (!translationService) at the end of saveOptions
NothingSelected(service) == service \in {Null, ""}

NoSaveRunning == \A s \in SaveIds : saves[s].pc \in {"idle", "done"}

NextSave(s) ==
  /\ saves[s].pc \in {"idle", "done"}
  /\ \A t \in SaveIds : t < s => saves[t].pc \notin {"idle", "done"}

\* Click on the save button: saveOptions reads the form and runs into
\* getEncryptionKey's getLocalStorage await.  (before: the synced settings
\* at that moment.)
SaveOptions(s, googleField, openaiField, openaiChecked, googleChecked) ==
  /\ NextSave(s)
  /\ LET g == Trim(googleField)
         o == Trim(openaiField)
     IN saves' = [saves EXCEPT ![s] =
          [IdleSave EXCEPT
             !.pc = "getLocal", !.googleApiKey = g, !.openaiApiKey = o,
             !.before = sync,
             !.translationService =
                SelectedService(openaiChecked, googleChecked, g, o)]]
  /\ UNCHANGED <<apiCallTracker, codec, now, lastApiCallTime, sync, localKey,
                 nextKey, calls, envLeft, page, browser, form>>

\* saveOptions returns: its locals are gone, the message is displayed.
SaveFailed(rec) ==
  [IdleSave EXCEPT !.pc = "done",
                   !.googleApiKey = rec.googleApiKey,
                   !.openaiApiKey = rec.openaiApiKey,
                   !.message = "Failed to save settings. Please try again."]

SaveSucceeded(rec) ==
  [IdleSave EXCEPT !.pc = "done",
                   !.googleApiKey = rec.googleApiKey,
                   !.openaiApiKey = rec.openaiApiKey,
                   !.message = "Settings saved securely."]

\* Faulty variant: the Google credential is stored as it was typed, its
\* bytes not passed through AES-GCM.
ItemsToSetPlain(rec, ivG, ivO) ==
  [translationService |-> rec.translationService,
   encryptedGoogleApiKey |->
     IF rec.googleApiKey # ""
       THEN Some(JsonStringify(
              [iv |-> ArrayBufferToBase64(ivG),
               ciphertext |-> ArrayBufferToBase64(
                 [k |-> 0, iv |-> ivG, pt |-> rec.googleApiKey,
                  tag |-> FALSE])]))
       ELSE None,
   encryptedOpenaiApiKey |->
     IF rec.openaiApiKey # ""
       THEN Some(JsonStringify(EncryptData(rec.key, ivO, rec.openaiApiKey)))
       ELSE None,
   encryptionKey |-> None]

\* Faulty variant: the exported key is synced along with the secrets.
ItemsToSetWithKey(rec, ivG, ivO) ==
  [translationService |-> rec.translationService,
   encryptedGoogleApiKey |->
     IF rec.googleApiKey # ""
       THEN Some(JsonStringify(EncryptData(rec.key, ivG, rec.googleApiKey)))
       ELSE None,
   encryptedOpenaiApiKey |->
     IF rec.openaiApiKey # ""
       THEN Some(JsonStringify(EncryptData(rec.key, ivO, rec.openaiApiKey)))
       ELSE None,
   encryptionKey |-> Some(ArrayBufferToBase64(ExportKey(rec.key)))]

\* itemsToSet; a field left out of the set is None here and keeps the
\* stored value.
ItemsToSet(rec, ivG, ivO) ==
  [translationService |-> rec.translationService,
   encryptedGoogleApiKey |->
     IF rec.googleApiKey # ""
       THEN Some(JsonStringify(EncryptData(rec.key, ivG, rec.googleApiKey)))
       ELSE None,
   encryptedOpenaiApiKey |->
     IF rec.openaiApiKey # ""
       THEN Some(JsonStringify(EncryptData(rec.key, ivO, rec.openaiApiKey)))
       ELSE None,
   encryptionKey |-> None]

\* After getEncryptionKey returned: both credentials are encrypted and
\* saveOptions awaits setStorage(itemsToSet).
SaveAfterKey(rec, ivG, ivO) ==
  [rec EXCEPT !.pc = "set", !.items = ItemsToSet(rec, ivG, ivO)]

\* getEncryptionKey of the options page: chrome.storage.local.get calls back.
Save_GetLocal(s, failed, ivG, ivO) ==
  /\ saves[s].pc = "getLocal"
  /\ IF failed
       THEN /\ saves' = [saves EXCEPT ![s] = SaveFailed(@)]
            /\ UNCHANGED nextKey
     ELSE IF localKey # None
       THEN /\ saves' = [saves EXCEPT ![s] =
                 SaveAfterKey(
                   [@ EXCEPT !.key =
                      ImportKey(Base64ToArrayBuffer(The(localKey)))],
                   ivG, ivO)]
            /\ UNCHANGED nextKey
     ELSE /\ nextKey < MaxKeys
          /\ nextKey' = nextKey + 1
          /\ saves' = [saves EXCEPT ![s] =
               [@ EXCEPT !.key = nextKey + 1, !.pc = "setLocal"]]
  /\ UNCHANGED <<apiCallTracker, codec, now, lastApiCallTime, sync, localKey,
                 calls, envLeft, page, browser, form>>

\* getEncryptionKey of the options page: chrome.storage.local.set calls back.
Save_SetLocal(s, failed, ivG, ivO) ==
  /\ saves[s].pc = "setLocal"
  /\ IF failed
       THEN /\ saves' = [saves EXCEPT ![s] = SaveFailed(@)]
            /\ UNCHANGED localKey
       ELSE /\ localKey' = Some(ArrayBufferToBase64(ExportKey(saves[s].key)))
            /\ saves' = [saves EXCEPT ![s] = SaveAfterKey(@, ivG, ivO)]
  /\ UNCHANGED <<apiCallTracker, codec, now, lastApiCallTime, sync, nextKey,
                 calls, envLeft, page, browser, form>>

\* chrome.storage.sync.set(items): the named keys are overwritten.
SyncSet(store, items) ==
  [translationService |-> items.translationService,
   encryptedGoogleApiKey |->
     IF items.encryptedGoogleApiKey # None
       THEN items.encryptedGoogleApiKey ELSE store.encryptedGoogleApiKey,
   encryptedOpenaiApiKey |->
     IF items.encryptedOpenaiApiKey # None
       THEN items.encryptedOpenaiApiKey ELSE store.encryptedOpenaiApiKey,
   encryptionKey |->
     IF items.encryptionKey # None
       THEN items.encryptionKey ELSE store.encryptionKey]

\* Faulty variant: the two removals are left out.
SaveStepAfterNoRemoval(rec, stage) ==
  IF NothingSelected(rec.translationService) /\ rec.pc # "setNull"
    THEN [rec EXCEPT !.pc = "setNull"]
  ELSE SaveSucceeded(rec)

\* The statement saveOptions reaches after setStorage(itemsToSet), after
\* the Google removal and after the OpenAI removal.
SaveStepAfter(rec, stage) ==
  IF stage < 1 /\ rec.googleApiKey = "" THEN [rec EXCEPT !.pc = "removeGoogle"]
  ELSE IF stage < 2 /\ rec.openaiApiKey = ""
    THEN [rec EXCEPT !.pc = "removeOpenai"]
  ELSE IF NothingSelected(rec.translationService)
    THEN [rec EXCEPT !.pc = "setNull"]
  ELSE SaveSucceeded(rec)

\* await setStorage(itemsToSet)
Save_Set(s, failed) ==
  /\ saves[s].pc = "set"
  /\ IF failed
       THEN /\ saves' = [saves EXCEPT ![s] = SaveFailed(@)]
            /\ UNCHANGED sync
       ELSE /\ sync' = SyncSet(sync, saves[s].items)
            /\ saves' = [saves EXCEPT ![s] = SaveStepAfter(@, 0)]
  /\ UNCHANGED <<apiCallTracker, codec, now, lastApiCallTime, localKey,
                 nextKey, calls, envLeft, page, browser, form>>

\* await removeStorage(['encryptedGoogleApiKey'])
Save_RemoveGoogle(s, failed) ==
  /\ saves[s].pc = "removeGoogle"
  /\ IF failed
       THEN /\ saves' = [saves EXCEPT ![s] = SaveFailed(@)]
            /\ UNCHANGED sync
       ELSE /\ sync' = [sync EXCEPT !.encryptedGoogleApiKey = None]
            /\ saves' = [saves EXCEPT ![s] = SaveStepAfter(@, 1)]
  /\ UNCHANGED <<apiCallTracker, codec, now, lastApiCallTime, localKey,
                 nextKey, calls, envLeft, page, browser, form>>

\* await removeStorage(['encryptedOpenaiApiKey'])
Save_RemoveOpenai(s, failed) ==
  /\ saves[s].pc = "removeOpenai"
  /\ IF failed
       THEN /\ saves' = [saves EXCEPT ![s] = SaveFailed(@)]
            /\ UNCHANGED sync
       ELSE /\ sync' = [sync EXCEPT !.encryptedOpenaiApiKey = None]
            /\ saves' = [saves EXCEPT ![s] = SaveStepAfter(@, 2)]
  /\ UNCHANGED <<apiCallTracker, codec, now, lastApiCallTime, localKey,
                 nextKey, calls, envLeft, page, browser, form>>

\* await setStorage({ translationService: null })
Save_SetNull(s, failed) ==
  /\ saves[s].pc = "setNull"
  /\ IF failed
       THEN /\ saves' = [saves EXCEPT ![s] = SaveFailed(@)]
            /\ UNCHANGED sync
       ELSE /\ sync' = [sync EXCEPT !.translationService = Null]
            /\ saves' = [saves EXCEPT ![s] = SaveSucceeded(@)]
  /\ UNCHANGED <<apiCallTracker, codec, now, lastApiCallTime, localKey,
                 nextKey, calls, envLeft, page, browser, form>>



\* saveOptions from the click to its last statement, for an invocation
\* that no other handler interleaves with and whose storage calls succeed:
\* the settings it leaves in the synced store.
SavedSettings(store, key, googleApiKey, openaiApiKey, service, ivG, ivO) ==
  LET rec == [IdleSave EXCEPT !.googleApiKey = googleApiKey,
                              !.openaiApiKey = openaiApiKey,
                              !.translationService = service,
                              !.key = key]
      afterSet == SyncSet(store, ItemsToSet(rec, ivG, ivO))
      afterG == IF googleApiKey = ""
                  THEN [afterSet EXCEPT !.encryptedGoogleApiKey = None]
                  ELSE afterSet
      afterO == IF openaiApiKey = ""
                  THEN [afterG EXCEPT !.encryptedOpenaiApiKey = None]
                  ELSE afterG
  IN IF NothingSelected(service)
       THEN [afterO EXCEPT !.translationService = Null]
       ELSE afterO

SaveOptionsRun(googleField, openaiField, openaiChecked, googleChecked, ivG, ivO) ==
  /\ NoSaveRunning
  /\ LET g == Trim(googleField)
         o == Trim(openaiField)
         key == IF localKey # None
                  THEN ImportKey(Base64ToArrayBuffer(The(localKey)))
                  ELSE nextKey + 1
     IN /\ localKey = None => nextKey < MaxKeys
        /\ nextKey' = IF localKey # None THEN nextKey ELSE nextKey + 1
        /\ localKey' = IF localKey # None THEN localKey
                       ELSE Some(ArrayBufferToBase64(ExportKey(key)))
        /\ sync' = SavedSettings(sync, key, g, o,
                     SelectedService(openaiChecked, googleChecked, g, o),
                     ivG, ivO)
  /\ UNCHANGED <<apiCallTracker, codec, now, lastApiCallTime, calls, saves,
                 envLeft, page, browser, form>>

\* --------------------------------------------- the synced store, outside
\* chrome.storage.sync is shared with the user's other browser instances
\* and can be edited outside the extension.  What reaches this device is
\* a stored secret whose IV or ciphertext differs from what was written,
\* or a secret that is gone.
StoredSecretPresent(p) ==
  IF p = "Google" THEN sync.encryptedGoogleApiKey # None
                  ELSE sync.encryptedOpenaiApiKey # None

WithSecret(store, p, val) ==
  IF p = "Google" THEN [store EXCEPT !.encryptedGoogleApiKey = val]
                  ELSE [store EXCEPT !.encryptedOpenaiApiKey = val]

\* The stored IV string is replaced: by the encoding of another IV, or by
\* a string that is not base64.
EnvAlterIv(p, iv, valid) ==
  /\ envLeft > 0
  /\ StoredSecretPresent(p)
  /\ LET old == JsonParse(StoredSecret(sync, p))
         new == [old EXCEPT !.iv = [valid |-> valid, bytes |-> iv]]
     IN /\ new # old
        /\ sync' = WithSecret(sync, p, Some(JsonStringify(new)))
  /\ envLeft' = envLeft - 1
  /\ UNCHANGED <<apiCallTracker, codec, now, lastApiCallTime, localKey,
                 nextKey, calls, saves, page, browser, form>>

\* The stored ciphertext string is replaced: by the encoding of bytes with
\* a flipped bit, or by a string that is not base64.
EnvAlterCiphertext(p, valid) ==
  /\ envLeft > 0
  /\ StoredSecretPresent(p)
  /\ LET old == JsonParse(StoredSecret(sync, p))
         bytes == IF valid
                    THEN [old.ciphertext.bytes EXCEPT !.tag = FALSE]
                    ELSE old.ciphertext.bytes
         new == [old EXCEPT !.ciphertext = [valid |-> valid, bytes |-> bytes]]
     IN /\ new # old
        /\ sync' = WithSecret(sync, p, Some(JsonStringify(new)))
  /\ envLeft' = envLeft - 1
  /\ UNCHANGED <<apiCallTracker, codec, now, lastApiCallTime, localKey,
                 nextKey, calls, saves, page, browser, form>>

\* A provider's secret is removed by another browser instance.
EnvRemoveSecret(p) ==
  /\ envLeft > 0
  /\ StoredSecretPresent(p)
  /\ sync' = WithSecret(sync, p, None)
  /\ envLeft' = envLeft - 1
  /\ UNCHANGED <<apiCallTracker, codec, now, lastApiCallTime, localKey,
                 nextKey, calls, saves, page, browser, form>>


\* The key of the user's other browser instance; it never reaches this
\* device's local store.
ForeignKey == MaxKeys + 1

\* saveOptions runs on the user's other browser instance and its settings
\* arrive through sync.
EnvRemoteSave(googleField, openaiField, openaiChecked, googleChecked, ivG, ivO) ==
  /\ envLeft > 0
  /\ LET g == Trim(googleField)
         o == Trim(openaiField)
     IN sync' = SavedSettings(sync, ForeignKey, g, o,
                  SelectedService(openaiChecked, googleChecked, g, o),
                  ivG, ivO)
  /\ envLeft' = envLeft - 1
  /\ UNCHANGED <<apiCallTracker, codec, now, lastApiCallTime, localKey,
                 nextKey, calls, saves, page, browser, form>>

\* ------------------------------------------- content script: the page
Min(S) == CHOOSE x \in S : \A y \in S : x <= y

\* getTranslateButton: the first control in document order, if any.
GetTranslateButton(pg) ==
  LET shown == {k \in Controls : pg.ctl[k].present}
  IN IF shown = {} THEN None ELSE Some(Min(shown))

\* addEventListener('click', handler, true): a handler that is already
\* registered (the same function of the same instance) is not added again.
AddEventListener(ls, i) ==
  IF \E n \in 1..Len(ls) : ls[n] = i THEN ls ELSE Append(ls, i)

\* The handlers a click runs: they run in registration order, and
\* handleTranslateButtonClick calls event.stopImmediatePropagation(), so
\* the handlers registered after the first do not run.
HandlersRun(ls) == IF ls = <<>> THEN <<>> ELSE <<ls[1]>>

\* initialize of instance i: its handler is attached to that control,
\* marked or not, and the control is marked.
Initialize(pg, i) ==
  LET b == GetTranslateButton(pg)
  IN IF b = None THEN pg
     ELSE [pg EXCEPT !.ctl[The(b)].listeners = AddEventListener(@, i),
                     !.ctl[The(b)].marker = TRUE]

\* The MutationObserver callback of instance i for one added element node
\* that holds the controls K: the first match inside the node gets the
\* handler unless it is marked.
ObserveAddedNode(pg, K, i) ==
  IF K = {} \/ pg.ctl[Min(K)].marker THEN pg
  ELSE [pg EXCEPT !.ctl[Min(K)].marker = TRUE,
                  !.ctl[Min(K)].listeners = AddEventListener(@, i)]

\* The observers of instances i..n are notified in the order of their
\* creation.
RECURSIVE ObserversRun(_, _, _, _)
ObserversRun(pg, K, i, n) ==
  IF i > n THEN pg ELSE ObserversRun(ObserveAddedNode(pg, K, i), K, i + 1, n)

\* contentScript.js is executed in the page (again): a new instance of
\* its closure runs initialize and starts its observer.
InjectContentScript ==
  /\ page.injected < MaxInjections
  /\ page' = Initialize([page EXCEPT !.injected = @ + 1], page.injected + 1)
  /\ UNCHANGED <<apiCallTracker, codec, now, lastApiCallTime, sync, localKey,
                 nextKey, calls, saves, envLeft, browser, form>>

\* The host page inserts an element node that holds the controls K, each
\* in a post of the given shape.
HostAddsNode(K, original, hasPost, hasText, text) ==
  /\ K # {}
  /\ \A k \in K : ~page.ctl[k].present
  /\ LET added == [page EXCEPT !.ctl = [k \in Controls |->
                     IF k \in K
                       THEN [NoControl EXCEPT
                               !.present = TRUE, !.original = original,
                               !.hasPost = hasPost, !.hasText = hasText,
                               !.text = text]
                       ELSE @[k]]]
     IN page' = ObserversRun(added, K, 1, page.injected)
  /\ UNCHANGED <<apiCallTracker, codec, now, lastApiCallTime, sync, localKey,
                 nextKey, calls, saves, envLeft, browser, form>>

\* Faulty variant: the text is returned as it stands in the element.
ExtractPostTextUntrimmed(control) ==
  IF ~control.hasPost \/ ~control.hasText THEN None
  ELSE Some(control.text)

\* extractPostText: null without a post container or a text element, else
\* the trimmed text.
ExtractPostText(control) ==
  IF ~control.hasPost \/ ~control.hasText THEN None
  ELSE Some(Trim(control.text))

\* handleTranslateButtonClick: a click on a control that has the handler.
\* Without post text the handler returns; otherwise the message is sent.
ClickTranslate(k, c) ==
  /\ page.ctl[k].present
  /\ HandlersRun(page.ctl[k].listeners) # <<>>
  /\ Len(page.ctl[k].blocks) < MaxBlocks
  /\ LET postText == ExtractPostText(page.ctl[k])
     IN IF postText = None \/ postText = Some("")
          THEN /\ page' = [page EXCEPT !.warned = TRUE]
               /\ UNCHANGED calls
          ELSE /\ ReceiveTranslatePost(c, The(postText), k)
               /\ UNCHANGED page
  /\ UNCHANGED <<apiCallTracker, codec, now, lastApiCallTime, sync, localKey,
                 nextKey, saves, envLeft, browser, form>>

\* The background listener answers a message of the page with one of the
\* responses it can send.
BackgroundReply(c, ok, val) ==
  /\ calls[c].pc = "getStorage"
  /\ calls[c].ctl # 0
  /\ calls' = [calls EXCEPT ![c] =
       IF ok THEN SendTranslated(@, val) ELSE SendError(@, val)]
  /\ UNCHANGED <<apiCallTracker, codec, now, lastApiCallTime, sync, localKey,
                 nextKey, saves, envLeft, page, browser, form>>

\* The value `${translateButton.dataset.original}` puts into the selector.
DatasetOriginalText(control) ==
  IF control.original = None THEN "undefined" ELSE The(control.original)

\* postElement.querySelector('.babbelsky-translated-text[data-original=..]')
ExistingTranslation(control) ==
  {i \in 1..Len(control.blocks) :
     /\ control.blocks[i].class = "babbelsky-translated-text"
     /\ control.blocks[i].dataOriginal = Some(DatasetOriginalText(control))}

\* addTranslatedText: what it does and the page it leaves.
AddTranslatedText(pg, k, text) ==
  LET control == pg.ctl[k]
  IN IF ~control.hasPost \/ ~control.hasText
       THEN [done |-> "warned", pg |-> pg]
     ELSE IF ExistingTranslation(control) # {}
       THEN [done |-> "exists", pg |-> pg]
     ELSE [done |-> "inserted",
           pg |-> [pg EXCEPT !.ctl[k].blocks = Append(@,
                     [class |-> "babbelsky-translated-text",
                      dataOriginal |-> None, text |-> text])]]

\* Faulty variant: the error message is also written into the post.
HandleResponseErrorShown(pg, k, response) ==
  LET r == response[1]
  IN IF /\ Len(response) > 0 /\ r.kind = "translatedPost"
        /\ r.val \notin {"", Undefined}
       THEN AddTranslatedText(pg, k, r.val)
     ELSE IF Len(response) > 0 /\ r.kind = "error" /\ r.val # ""
       THEN [done |-> "alerted",
             pg |-> [pg EXCEPT !.ctl[k].blocks = Append(@,
                       [class |-> "babbelsky-translated-text",
                        dataOriginal |-> None, text |-> r.val])]]
     ELSE [done |-> "warned", pg |-> pg]

\* The body of the sendMessage callback: a truthy response.translatedPost
\* is inserted, a truthy response.error is shown with alert(), anything
\* else is logged.
HandleResponse(pg, k, response) ==
  LET r == response[1]
  IN IF /\ Len(response) > 0 /\ r.kind = "translatedPost"
        /\ r.val \notin {"", Undefined}
       THEN AddTranslatedText(pg, k, r.val)
     ELSE IF Len(response) > 0 /\ r.kind = "error" /\ r.val # ""
       THEN [done |-> "alerted", pg |-> pg]
     ELSE [done |-> "warned", pg |-> pg]

\* The sendMessage callback of handleTranslateButtonClick.
PageCallback(c) ==
  /\ calls[c].pc = "done"
  /\ calls[c].ctl # 0
  /\ calls[c].handled = ""
  /\ LET a == HandleResponse(page, calls[c].ctl, calls[c].resp)
     IN /\ page' = a.pg
        /\ calls' = [calls EXCEPT ![c].handled = a.done]
  /\ UNCHANGED <<apiCallTracker, codec, now, lastApiCallTime, sync, localKey,
                 nextKey, saves, envLeft, browser, form>>

\* ------------------------------------------------- the codec, on strings
\* encryptData(key, str) with key number k and the IV that generateIV drew.
CodecEncrypt(str, k, iv) ==
  /\ codec.stage = "idle"
  /\ codec' = [codec EXCEPT !.stage = "encrypted", !.str = str, !.k = k,
                             !.enc = EncryptText(k, iv, str)]
  /\ UNCHANGED <<apiCallTracker, now, lastApiCallTime, sync, localKey,
                 nextKey, calls, saves, envLeft, page, browser, form>>

\* decryptData(key, iv, ciphertext) with key number k2 on that result.
CodecDecrypt(k2) ==
  /\ codec.stage = "encrypted"
  /\ codec' = [codec EXCEPT !.stage = "decrypted", !.k2 = k2,
                 !.out = DecryptText(k2, codec.enc.iv, codec.enc.ciphertext)]
  /\ UNCHANGED <<apiCallTracker, now, lastApiCallTime, sync, localKey,
                 nextKey, calls, saves, envLeft, page, browser, form>>

\* ----------------------------------------------------------- next-state
\* generateIV is called only for a credential that is not empty.
IVsFor(field) == IF Trim(field) = "" THEN {1} ELSE IVs

SaveClick ==
  \E s \in SaveIds, g \in GoogleFieldValues, o \in OpenaiFieldValues,
     co \in BOOLEAN, cg \in BOOLEAN :
    NoSaveRunning /\ SaveOptions(s, g, o, co, cg)

SaveSteps(failures) ==
  \E s \in SaveIds, failed \in failures :
    \/ \E ivG \in IVsFor(saves[s].googleApiKey),
          ivO \in IVsFor(saves[s].openaiApiKey) :
         \/ Save_GetLocal(s, failed, ivG, ivO)
         \/ Save_SetLocal(s, failed, ivG, ivO)
    \/ Save_Set(s, failed)
    \/ Save_RemoveGoogle(s, failed)
    \/ Save_RemoveOpenai(s, failed)
    \/ Save_SetNull(s, failed)

SaveStep == SaveSteps(BOOLEAN)

SaveRun(googleFields, openaiFields) ==
  \E g \in googleFields, o \in openaiFields, co \in BOOLEAN, cg \in BOOLEAN :
    \E ivG \in IVsFor(g), ivO \in IVsFor(o) :
      SaveOptionsRun(g, o, co, cg, ivG, ivO)

CallStep(limit, failures, outcomes) ==
  \E c \in 1..limit :
    \/ MessageArrives(c)
    \/ \E failed \in failures :
         \/ TP_GetStorage(c, failed)
         \/ TP_GetLocal(c, failed)
         \/ TP_SetLocal(c, failed)
    \/ TP_Decrypt(c)
    \/ RL_Wake(c)
    \/ \E outcome \in outcomes : FetchReturn(c, outcome)

EnvRemote(googleFields, openaiFields) ==
  \E g \in googleFields, o \in openaiFields, co \in BOOLEAN, cg \in BOOLEAN :
    \E ivG \in IVsFor(g), ivO \in IVsFor(o) :
      EnvRemoteSave(g, o, co, cg, ivG, ivO)

EnvSync ==
  \/ \E p \in Providers : EnvRemoveSecret(p)
  \/ EnvRemote(GoogleFieldValues, OpenaiFieldValues)

EnvTamper ==
  \E p \in Providers :
    \/ \E iv \in 0..MaxIV, valid \in BOOLEAN : EnvAlterIv(p, iv, valid)
    \/ \E valid \in BOOLEAN : EnvAlterCiphertext(p, valid)

\* Time passes while a rate-limit timer is pending.
TimerPending ==
  \E c \in CallIds : calls[c].pc = "rlWait" /\ now < calls[c].wakeAt

TickWhileWaiting == TimerPending /\ Tick

\* A pending setTimeout fires in the end: the clock moves on for as long as
\* a call waits for it, whatever the horizon.
TimerTick ==
  /\ TimerPending
  /\ now' = now + TickMs
  /\ UNCHANGED <<apiCallTracker, codec, lastApiCallTime, sync, localKey,
                 nextKey, calls, saves, envLeft, page, browser, form>>

\* The options page alone: saveOptions invocations, one at a time, step
\* by step.
NextSaveOnly == SaveClick \/ SaveStep

SpecSave == Init /\ [][NextSaveOnly]_vars

\* The options page with invocations that overlap: the save button is
\* clicked again, or in a second options tab, while an earlier saveOptions
\* is suspended in one of its awaits.  The storage operations succeed.
SaveClickAny ==
  \E s \in SaveIds, g \in GoogleFieldValues, o \in OpenaiFieldValues,
     co \in BOOLEAN, cg \in BOOLEAN :
    SaveOptions(s, g, o, co, cg)

NextSaveOverlap == SaveClickAny \/ SaveSteps({FALSE})

SpecSaveOverlap == Init /\ [][NextSaveOverlap]_vars

\* The device: saves, the dispatcher serving one message at a time, and
\* the synced store changing from outside.
Next == \/ SaveRun(GoogleFieldValues, OpenaiFieldValues)
        \/ CallStep(1, BOOLEAN, FetchOutcomes)
        \/ TickWhileWaiting
        \/ EnvSync

Spec == Init /\ [][Next]_vars

\* The device with a synced store whose secrets are also altered.
NextTamper == Next \/ EnvTamper

SpecTamper == Init /\ [][NextTamper]_vars

\* The rate limiter: both credentials saved here or synced from another
\* browser instance, then concurrent messages whose storage reads succeed,
\* under a free-running clock.
NextRate == \/ SaveRun({"gk"}, {"ok"})
            \/ CallStep(MaxCalls, {FALSE}, {"ok", "notOk"})
            \/ Tick
            \/ EnvRemote({"gk"}, {"ok"})

SpecRate == Init /\ [][NextRate]_vars

\* First use of the key: the options page saving step by step while the
\* dispatcher serves a message, with settings arriving through sync.
NextKey == \/ SaveClick \/ SaveStep
           \/ CallStep(1, {FALSE}, {"ok"})
           \/ TickWhileWaiting
           \/ EnvSync

SpecKey == Init /\ [][NextKey]_vars

\* The page: the host page's controls, the content script and the
\* answers of the background listener.
PageStep ==
  \/ InjectContentScript
  \/ \E K \in SUBSET Controls, original \in {None, Some("x")},
        hasPost \in BOOLEAN, hasText \in BOOLEAN, text \in {" ", "Bonjour"} :
       HostAddsNode(K, original, hasPost, hasText, text)
  \/ \E k \in Controls, c \in CallIds : ClickTranslate(k, c)
  \/ \E c \in CallIds : PageCallback(c)

NextPage ==
  \/ PageStep
  \/ \E c \in CallIds :
       \/ \E val \in {"", "Hello"} : BackgroundReply(c, TRUE, val)
       \/ \E val \in {ErrInvalid} : BackgroundReply(c, FALSE, val)

SpecPage == Init /\ [][NextPage]_vars

\* The rate limiter of the variant with apiCallTracker: provider requests
\* for several texts and credentials, entering at translateWith...
NextTracker ==
  \/ \E c \in CallIds, text \in Posts :
       \/ \E apiKey \in GoogleApiKeys : TrackerEnter(c, "Google", apiKey, text)
       \/ TrackerEnter(c, "OpenAI", "ok", text)
  \/ \E c \in CallIds : TrackerWake(c)
  \/ \E c \in CallIds : FetchReturn(c, "ok")
  \/ Tick

SpecTracker == Init /\ [][NextTracker]_vars

\* The page with its scheduling: whatever the page, the content script
\* or the background can still do is eventually done (a queued callback
\* runs; the host page and the injection are given the same benefit).
SpecPageLive == SpecPage /\ WF_vars(NextPage)

\* The dispatcher with its scheduling: MaxCalls messages, each served to
\* the end while saves and other messages come in between.  Every storage,
\* crypto and HTTP operation a call waits for returns in the end, and a
\* pending timer fires.
CallReturns(c) ==
  \/ \E failed \in BOOLEAN :
       \/ TP_GetStorage(c, failed)
       \/ TP_GetLocal(c, failed)
       \/ TP_SetLocal(c, failed)
  \/ TP_Decrypt(c)
  \/ RL_Wake(c)
  \/ \E outcome \in {"ok", "notOk"} : FetchReturn(c, outcome)

NextLive ==
  \/ SaveRun({"gk"}, {"ok"})
  \/ EnvRemote({"gk"}, {"ok"})
  \/ \E c \in CallIds : calls[c].pc = "idle" /\ MessageArrives(c)
  \/ \E c \in CallIds : CallReturns(c)
  \/ TimerTick

SpecLive ==
  /\ Init /\ [][NextLive]_vars
  /\ \A c \in CallIds : WF_vars(CallReturns(c))
  /\ WF_vars(TimerTick)

\* The device running the dispatcher without a rate limiter: saves, one
\* message at a time, and the synced store changing from outside.
NextNoLimiter ==
  \/ SaveRun(GoogleFieldValues, OpenaiFieldValues)
  \/ MessageArrives(1)
  \/ \E failed \in BOOLEAN :
       \/ TP_GetStorage(1, failed)
       \/ BG_GetLocal(1, failed)
       \/ BG_SetLocal(1, failed)
  \/ BG_Decrypt(1)
  \/ \E outcome \in FetchOutcomes : BG_FetchReturn(1, outcome)
  \/ EnvSync

SpecNoLimiter == Init /\ [][NextNoLimiter]_vars

\* The browser window with its tabs: controls appear, the user changes
\* the active tab, and the injection requests are served.
NextTabs ==
  \/ \E t \in Tabs : HostShowsControl(t)
  \/ \E a \in Tabs \cup {0} : ActivateTab(a)
  \/ \E t \in Tabs : IJ_TabsQuery(t)
  \/ \E t \in Tabs, failed \in BOOLEAN : IJ_Executed(t, failed)

SpecTabs == Init /\ [][NextTabs]_vars

\* The user clicks Save: saveOptions reads the form.
FormSave ==
  /\ form.loaded
  /\ \E ivG \in IVsFor(form.googleApiKey), ivO \in IVsFor(form.openaiApiKey) :
       SaveOptionsRun(form.googleApiKey, form.openaiApiKey,
                      form.serviceOpenAI.checked, form.serviceGoogle.checked,
                      ivG, ivO)

\* The options page: settings are loaded into the form, the user edits
\* the fields, clicks the checkboxes and saves, and the synced store
\* changes from outside.
NextForm ==
  \/ \E l \in LoadIds : LO_Start(l)
  \/ \E l \in LoadIds, failed \in BOOLEAN : LO_GetStorage(l, failed)
  \/ \E l \in LoadIds, failed \in BOOLEAN : LO_Finish(l, failed)
  \/ \E text \in GoogleFieldTexts : FieldInput("Google", text)
  \/ \E text \in OpenaiFieldTexts : FieldInput("OpenAI", text)
  \/ \E p \in Providers : CheckboxChange(p)
  \/ FormSave
  \/ EnvSync

SpecForm == Init /\ [][NextForm]_vars

\* The codec alone: one string encrypted under one key and decrypted under
\* the same or another key.
NextCodec ==
  \/ \E str \in Strings, k \in CallIds, iv \in IVs : CodecEncrypt(str, k, iv)
  \/ \E k2 \in CallIds : CodecDecrypt(k2)

SpecCodec == Init /\ [][NextCodec]_vars


\* ================================================================ claims
ErrorResponse(msg) == <<[kind |-> "error", val |-> msg]>>

Fetched(c) == calls[c].fetchAt # 0

\* C1: of two translatePost calls issued back to back that both reach a
\* provider, the second call's fetch starts no earlier than 2000 ms after
\* the first call's fetch started (stated for the pairs in which the first
\* call's fetch is not overtaken by the second's).
C1_BackToBackSpacing ==
  \A d \in CallIds :
    LET c == calls[d].pred
    IN (c # 0 /\ Fetched(c) /\ Fetched(d)
          /\ calls[c].fetchAt <= calls[d].fetchAt)
         => calls[d].fetchAt - calls[c].fetchAt >= 2000

\* C2: concurrent rateLimitedApiCall invocations queue: two calls
\* suspended in the rate-limit wait are due at least 2000 ms apart (the
\* later one has seen the earlier one's timestamp), and no two fetches are
\* issued less than 2000 ms apart.
C2_CallsQueue ==
  \A c \in CallIds, d \in CallIds :
    c # d =>
      /\ (calls[c].pc = "rlWait" /\ calls[d].pc = "rlWait"
            /\ calls[c].wakeAt <= calls[d].wakeAt)
           => calls[d].wakeAt - calls[c].wakeAt >= 2000
      /\ (Fetched(c) /\ Fetched(d) /\ calls[c].fetchAt <= calls[d].fetchAt)
           => calls[d].fetchAt - calls[c].fetchAt >= 2000

\* The settings a call read select a provider whose secret is not stored.
SecretMissing(r) ==
  /\ r.gotSettings
  /\ \/ r.st.translationService = "Google" /\ r.st.encryptedGoogleApiKey = {}
     \/ r.st.translationService = "OpenAI" /\ r.st.encryptedOpenaiApiKey = {}

C4_NoProviderSelected ==
  \A c \in CallIds :
    (calls[c].gotSettings
       /\ calls[c].st.translationService \in {"undefined", "null"})
      => /\ calls[c].pc = "done"
         /\ calls[c].resp = ErrorResponse("No translation service selected.")
         /\ ~calls[c].keyAccess
         /\ calls[c].decrypts = 0
         /\ calls[c].fetches = 0
         /\ calls[c].path = {}

\* C4 witness: a call read settings whose translationService is null (or
\* absent) while a secret was stored, and has failed.
C4_Witness ==
  \E c \in CallIds :
    /\ calls[c].gotSettings
    /\ calls[c].st.translationService = "null"
    /\ calls[c].st.encryptedGoogleApiKey # {}
    /\ calls[c].pc = "done"

\* C5: a call that read translationService = 'OpenAI' with its secret
\* present invokes only translateWithOpenAI, one that read 'Google' with
\* its secret present only translateWithGoogle, and no call invokes both
\* provider paths.
C5_Routing ==
  \A c \in CallIds :
    LET r == calls[c]
    IN /\ Cardinality(r.path) <= 1
       /\ (r.gotSettings /\ r.st.translationService = "OpenAI"
             /\ r.st.encryptedOpenaiApiKey # {})
            => /\ r.path \subseteq {"OpenAI"}
               /\ r.fetches > 0 => r.path = {"OpenAI"}
       /\ (r.gotSettings /\ r.st.translationService = "Google"
             /\ r.st.encryptedGoogleApiKey # {})
            => /\ r.path \subseteq {"Google"}
               /\ r.fetches > 0 => r.path = {"Google"}

\* C5 witness: with both secrets stored and OpenAI selected, a call has
\* issued its request on the OpenAI path.
C5_Witness ==
  \E c \in CallIds :
    /\ calls[c].st.translationService = "OpenAI"
    /\ calls[c].st.encryptedGoogleApiKey # {}
    /\ calls[c].st.encryptedOpenaiApiKey # {}
    /\ calls[c].path = {"OpenAI"}
    /\ calls[c].fetches = 1

\* Every key a running getEncryptionKey holds or has returned.
KeysInUse ==
  {calls[c].key : c \in {d \in CallIds : calls[d].key # 0}}
    \cup {saves[t].key : t \in {u \in SaveIds : saves[u].key # 0}}

\* C6: all getEncryptionKey calls on one device return the single key
\* persisted in local storage: no two calls hold different keys, and no
\* call holds a key other than the persisted one.
C6_SingleKey ==
  /\ Cardinality(KeysInUse) <= 1
  /\ \A k \in KeysInUse :
       localKey # {} => localKey = {ArrayBufferToBase64(ExportKey(k))}

\* C7: in every state of the synced store reachable through saveOptions
\* calls that do not overlap, the states between the set and remove
\* operations of one call included, translationService names a provider
\* only if that provider's encrypted secret is present.
C7_ServiceHasSecret ==
  /\ sync.translationService = "OpenAI" => sync.encryptedOpenaiApiKey # {}
  /\ sync.translationService = "Google" => sync.encryptedGoogleApiKey # {}

\* C7 witness: a saveOptions call is between its set and its remove while
\* the store names Google and holds Google's secret.
C7_Witness ==
  \E t \in SaveIds :
    /\ saves[t].pc = "removeOpenai"
    /\ sync.translationService = "Google"
    /\ sync.encryptedGoogleApiKey # {}

\* The stored secret a call is about to decrypt is not what encryptData
\* produced under the call's key: its IV or ciphertext was altered, or it
\* was encrypted with a different key.
NotAuthentic(r) ==
  LET enc == StoredSecret(r.st, r.provider).json
      ct == enc.ciphertext.bytes
  IN \/ ~enc.iv.valid
     \/ ~enc.ciphertext.valid
     \/ ~ct.tag
     \/ enc.iv.bytes # ct.iv
     \/ ct.k # r.key

\* C8: decrypting a stored secret whose ciphertext or IV was altered, or
\* with a different key, fails with 'Failed to decrypt data. Possible data
\* corruption.'; translatePost fails with that error and issues no HTTP
\* request.
C8_TamperDetected ==
  [][\A c \in CallIds :
       (calls[c].pc = "decrypt" /\ calls'[c].pc # "decrypt"
          /\ NotAuthentic(calls[c]))
         => /\ calls'[c].pc = "done"
            /\ calls'[c].resp = ErrorResponse(
                 "Failed to decrypt data. Possible data corruption.")
            /\ calls'[c].fetches = 0]_vars

\* C9: every translatePost message that has been handled got exactly one
\* response, {translatedPost} or {error}; while translatePost is pending
\* none has been sent.
C9_OneResponse ==
  \A c \in CallIds :
    /\ calls[c].pc = "done" =>
         /\ Len(calls[c].resp) = 1
         /\ calls[c].resp[1].kind \in {"translatedPost", "error"}
         /\ calls[c].resp[1].kind = "translatedPost" => calls[c].fetches = 1
    /\ calls[c].pc # "done" => calls[c].resp = <<>>

\* C9 witness: a message whose translatePost was rejected after its fetch
\* has its one error response.
C9_Witness ==
  \E c \in CallIds :
    /\ calls[c].pc = "done"
    /\ calls[c].fetches = 1
    /\ Len(calls[c].resp) = 1
    /\ calls[c].resp[1].kind = "error"

\* C10: a post container holds at most one inserted
\* '.babbelsky-translated-text' block, however often its translate control
\* was activated and answered with a translation.
C10_AtMostOneBlock ==
  \A k \in Controls : Len(page.ctl[k].blocks) <= 1

\* C11: across initialize runs, mutation-observer callbacks and injections
\* of the content script, no translate control has the intercepting click
\* handler attached more than once.
C11_HandlerAttachedOnce ==
  \A k \in Controls : Len(page.ctl[k].listeners) <= 1

\* C12: when the background answers a translatePost request of the page
\* with an error, the sendMessage callback shows the message with alert()
\* and leaves the page's DOM as it was; the activation itself (the click
\* handler sending the request) does not change the DOM either.
C12_ErrorLeavesDom ==
  [][\A c \in CallIds :
       /\ (calls[c].pc = "done" /\ calls[c].ctl # 0
             /\ calls[c].resp # <<>> /\ calls[c].resp[1].kind = "error"
             /\ calls[c].handled = "" /\ calls'[c].handled # "")
            => (calls'[c].handled = "alerted" /\ page' = page)
       /\ (calls[c].pc # "getStorage" /\ calls'[c].pc = "getStorage"
             /\ calls'[c].ctl # 0)
            => page' = page]_vars

\* C12 witness: an error answer was shown to the user while the post
\* already held an inserted translation.
C12_Witness ==
  \E c \in CallIds :
    /\ calls[c].handled = "alerted"
    /\ calls[c].ctl # 0
    /\ Len(page.ctl[calls[c].ctl].blocks) = 1

\* C13: for every string and key, decryptData with the key, applied to the
\* {iv, ciphertext} pair that encryptData made of the string with that
\* key, returns the string.
C13_RoundTrip ==
  (codec.stage = "decrypted" /\ codec.k2 = codec.k)
    => (codec.out.ok /\ codec.out.pt = codec.str)

\* C14: when a saveOptions call completes successfully, each provider's
\* encrypted secret is in the synced store if and only if the provider's
\* trimmed field was not empty, and a secret that is there is the one this
\* call encrypted.
C14_SecretsFollowFields ==
  [][\A s \in SaveIds :
       (saves[s].pc # "done" /\ saves'[s].pc = "done"
          /\ saves'[s].message = "Settings saved securely.")
         => /\ sync'.encryptedGoogleApiKey # {} <=> saves[s].googleApiKey # ""
            /\ sync'.encryptedOpenaiApiKey # {} <=> saves[s].openaiApiKey # ""
            /\ saves[s].googleApiKey # "" =>
                 sync'.encryptedGoogleApiKey = saves[s].items.encryptedGoogleApiKey
            /\ saves[s].openaiApiKey # "" =>
                 sync'.encryptedOpenaiApiKey = saves[s].items.encryptedOpenaiApiKey
     ]_vars

\* C14 witness: a save with the Google field cleared and an OpenAI
\* credential given has completed; the store holds the OpenAI secret only.
C14_Witness ==
  \E s \in SaveIds :
    /\ saves[s].pc = "done" /\ saves[s].message = "Settings saved securely."
    /\ saves[s].googleApiKey = "" /\ saves[s].openaiApiKey # ""
    /\ sync.encryptedGoogleApiKey = {}
    /\ sync.encryptedOpenaiApiKey # {}

\* The values encryptData can produce for a credential of the options page.
EncryptedCredentials ==
  {JsonStringify(EncryptData(k, iv, pt)) :
     k \in 1..MaxKeys, iv \in IVs, pt \in {"gk", "ok"}}

\* The exported forms of the keys generateKey can make on this device.
ExportedKeys == {ArrayBufferToBase64(ExportKey(k)) : k \in 1..MaxKeys}

\* C15: in every state, what the synced store holds under the two secret
\* names is an {iv, ciphertext} output of encryptData, translationService
\* is a service name or null, and the local store holds the exported key
\* only: no credential is stored as typed.
C15_NoPlaintextCredential ==
  /\ sync.encryptedGoogleApiKey \subseteq EncryptedCredentials
  /\ sync.encryptedOpenaiApiKey \subseteq EncryptedCredentials
  /\ sync.translationService \in ServiceValues
  /\ localKey \subseteq ExportedKeys

\* C15 witness: both credentials have been saved.
C15_Witness ==
  /\ sync.encryptedGoogleApiKey # {}
  /\ sync.encryptedOpenaiApiKey # {}
  /\ localKey # {}

C17_TextOnlyFromGoodBody ==
  \A c \in CallIds :
    (calls[c].pc = "done" /\ calls[c].outcome # "none") =>
      /\ Len(calls[c].resp) = 1
      /\ IF calls[c].outcome \in {"ok", "blank"}
           THEN calls[c].resp[1].kind = "translatedPost"
           ELSE calls[c].resp[1].kind = "error"

\* C18: the step of rateLimitedApiCall that issues the fetch is the step
\* that writes lastApiCallTime, with the time of that step (nothing runs
\* between the write and the fetch); no other step writes it, and the step
\* in which a fetch settles, with success or failure, leaves it alone.
C18_StampBeforeFetch ==
  [][/\ \A c \in CallIds :
         /\ (calls[c].pc # "fetch" /\ calls'[c].pc = "fetch") =>
              (lastApiCallTime' = now /\ calls'[c].fetchAt = now)
         /\ (calls[c].pc = "fetch" /\ calls'[c].pc # "fetch") =>
              lastApiCallTime' = lastApiCallTime
     /\ lastApiCallTime' # lastApiCallTime =>
          \E c \in CallIds : calls[c].pc # "fetch" /\ calls'[c].pc = "fetch"
    ]_vars

\* C18 witness: one request has failed with a non-success status, a later
\* one is in flight, and the timestamp is the time the later fetch was
\* issued.
C18_Witness ==
  \E c \in CallIds, d \in CallIds :
    /\ calls[c].pc = "done" /\ calls[c].outcome = "notOk"
    /\ calls[d].pc = "fetch"
    /\ calls[d].fetchAt > calls[c].fetchAt
    /\ lastApiCallTime = calls[d].fetchAt

\* The time at which the most recent provider request, by either variant
\* of rateLimitedApiCall, was issued (0: none yet).
LastRequestAt ==
  LET times == {lastApiCallTime} \cup {apiCallTracker[u] : u \in Urls}
  IN CHOOSE t \in times : \A u \in times : u <= t

\* C19: one gate for all requests: a request to either provider, for any
\* text and credential, that arrives at rateLimitedApiCall less than
\* 2000 ms after the previous request to either provider was issued is
\* suspended until 2000 ms after that request.
C19_SharedGate ==
  [][\A c \in CallIds :
       (/\ calls[c].pc \notin {"rlWait", "fetch"}
        /\ calls'[c].pc \in {"rlWait", "fetch"}
        /\ now - LastRequestAt < RateLimitMs)
         => /\ calls'[c].pc = "rlWait"
            /\ calls'[c].wakeAt = LastRequestAt + RateLimitMs
    ]_vars

\* C20: every translate control in the document of a page the content
\* script runs in, whether it was there at initialization or came inside an
\* inserted subtree, eventually has the click handler attached.
C20_EveryControlHandled ==
  \A k \in Controls :
    (page.injected > 0 /\ page.ctl[k].present)
      ~> (page.ctl[k].listeners # <<>>)

\* The post of a control yields no text: no post container, no text
\* element, or text that is empty once trimmed.
NoPostText(control) ==
  ~control.hasPost \/ ~control.hasText \/ Trim(control.text) = ""

\* C21: a click on a control whose post yields no text ends in the click
\* handler: the step that logs the warning sends no message and leaves the
\* DOM alone, and such a control never has a translatePost message (and so
\* no alert) or an inserted block to its name.
C21_AbortsLocally ==
  [][/\ (page'.warned /\ ~page.warned) =>
          (calls' = calls /\ page'.ctl = page.ctl)
     /\ \A k \in Controls :
          (page'.ctl[k].present /\ NoPostText(page'.ctl[k])) =>
            /\ page'.ctl[k].blocks = <<>>
            /\ \A c \in CallIds : calls'[c].ctl # k
    ]_vars

\* C21 witness: the only control with the handler holds a post whose text
\* is blank, and a click on it has been answered with the warning.
C21_Witness ==
  /\ page.warned
  /\ \E k \in Controls :
       /\ page.ctl[k].present /\ page.ctl[k].listeners # <<>>
       /\ page.ctl[k].hasPost /\ page.ctl[k].hasText
       /\ page.ctl[k].text = " "
       /\ \A j \in Controls \ {k} : page.ctl[j].listeners = <<>>

\* C22: a translatePost call that has been dispatched is answered in the
\* end, with exactly one response; on its way it is suspended by the rate
\* limiter at most once (from the wait it goes on to the fetch and from the
\* fetch to its response), and no step of another call or of the options
\* page takes it back or ends it.
C22_RunsToCompletion ==
  /\ \A c \in CallIds :
       (calls[c].pc \notin {"idle", "done"})
         ~> (calls[c].pc = "done" /\ Len(calls[c].resp) = 1)
  /\ [][\A c \in CallIds :
          /\ calls[c].pc = "rlWait" => calls'[c].pc \in {"rlWait", "fetch"}
          /\ calls[c].pc = "fetch" => calls'[c].pc \in {"fetch", "done"}
          /\ (calls[c].pc # "rlWait" /\ calls'[c].pc = "rlWait") =>
               calls[c].pc = "decrypt"
          /\ calls[c].pc \notin {"idle", "done"} => calls'[c].pc # "idle"
       ]_vars

\* C22 witness: two calls have been answered with a translation, and the
\* fetch of one was held back until 2000 ms after the fetch of the other.
C22_Witness ==
  \E c \in CallIds, d \in CallIds :
    /\ calls[c].pc = "done" /\ calls[c].resp # <<>>
    /\ calls[c].resp[1].kind = "translatedPost"
    /\ calls[d].pc = "done" /\ calls[d].resp # <<>>
    /\ calls[d].resp[1].kind = "translatedPost"
    /\ calls[d].fetchAt = calls[c].fetchAt + RateLimitMs

\* C23: when a storage operation of saveOptions has failed, the page shows
\* 'Failed to save settings' and the synced settings are what they were
\* before the invocation: none of its writes is committed.
C23_FailedSaveCommitsNothing ==
  [][\A s \in SaveIds :
       (/\ saves[s].pc \notin {"idle", "done"}
        /\ saves'[s].pc = "done"
        /\ saves'[s].message = "Failed to save settings. Please try again.")
         => sync' = saves[s].before
    ]_vars

\* C25: with saveOptions invocations that overlap, the synced store still
\* never names a provider whose encrypted secret it does not hold.
C25_ServiceHasSecretOverlap ==
  \A p \in Providers :
    sync.translationService = p =>
      (IF p = "Google" THEN sync.encryptedGoogleApiKey
                       ELSE sync.encryptedOpenaiApiKey) # None

\* C24: in the dispatcher without a rate limiter, a translatePost call
\* that read translationService = 'Google' together with a stored Google
\* secret goes on to decrypt it and to call translateWithGoogle; it does
\* not end in 'Invalid translation service or missing API key.'.
C24_GoogleIsRouted ==
  \A c \in CallIds :
    (/\ calls[c].pc = "done" /\ calls[c].gotSettings
     /\ calls[c].st.translationService = "Google"
     /\ calls[c].st.encryptedGoogleApiKey # None)
      => calls[c].resp # ErrorResponse(ErrInvalid)

\* C26: every encrypted secret in the synced store can be decrypted with
\* the encryption key in the local store of the device that reads it.
C26_SecretsDecryptable ==
  \A p \in Providers :
    (StoredSecretPresent(p) /\ localKey # None) =>
      LET enc == JsonParse(StoredSecret(sync, p))
          key == ImportKey(Base64ToArrayBuffer(The(localKey)))
      IN DecryptData(key, enc.iv, enc.ciphertext).ok

\* C27: whatever the background answers to a translatePost request of the
\* page, the sendMessage callback either puts the translated text into the
\* post (or finds it there already) or shows the error with alert(); no
\* answer ends in the callback's last branch.
C27_NoResponseDropped ==
  \A c \in CallIds :
    (calls[c].ctl # 0 /\ calls[c].handled # "")
      => calls[c].handled \in {"inserted", "exists", "alerted"}

\* C28: an injectContentScript request whose listener has no callback
\* left to run has been answered exactly once, with {success: true} or
\* {success: false, error}, also when the tab query returned no tab.
C28_InjectAnswered ==
  \A t \in Tabs :
    browser.req[t].pc = "settled" => Len(browser.req[t].resp) = 1

\* C29: the request of a tab's detector has the content script executed
\* in that tab and in no other, and no tab holds more than one copy.
C29_InjectsIntoSender ==
  /\ \A t \in Tabs :
       browser.req[t].target # 0 => browser.req[t].target = t
  /\ \A t \in Tabs : browser.tab[t].scripts <= 1

\* C30: once loadOptions has filled the form, whatever loadOptions runs,
\* field edits and checkbox clicks follow, at most one of the two provider
\* checkboxes is checked, and a checked checkbox has a non-empty
\* credential field.
C30_OneCheckedWithCredential ==
  form.loaded =>
    /\ ~(form.serviceOpenAI.checked /\ form.serviceGoogle.checked)
    /\ form.serviceOpenAI.checked => form.openaiApiKey # ""
    /\ form.serviceGoogle.checked => form.googleApiKey # ""

\* Both fields hold a credential, and the last event was a click on the
\* Google checkbox that made the handler uncheck OpenAI.
C30_Witness ==
  /\ form.loaded
  /\ form.last = "change" /\ form.cleared
  /\ form.serviceGoogle.checked /\ ~form.serviceOpenAI.checked
  /\ form.googleApiKey = "gk" /\ form.openaiApiKey = "ok"

=============================================================================
